---- MODULE Spec2Model ----
(***************************************************************************)
(* Model of the travel itinerary planner: TravelPlannerSystem (main.py),   *)
(* create_agents (agents.py) and create_tasks (tasks.py).                  *)
(*                                                                         *)
(* Text.  A Python str is a sequence of pieces.  A piece is a TLA+ string: *)
(* one character for text the program looks into (destinations, keys,      *)
(* interests, dates) and one literal of the source for the fixed parts of  *)
(* a template.  Concatenation is \o.                                       *)
(*                                                                         *)
(* Values.  A Python value is a record [t, v, items]:                      *)
(*   t = "none"  None                                                      *)
(*   t = "str"   the str v[1]                                              *)
(*   t = "list"  the list of str v                                         *)
(*   t = "dict"  the dict whose items, in insertion order, are items       *)
(*               (each [k |-> key text, val |-> a none/str/list value])    *)
(***************************************************************************)
EXTENDS Integers, Sequences, FiniteSets, TLC

\* ------------------------------------------------------------------ bounds
\* Calls made on the one TravelPlannerSystem instance.
MaxRuns == 2
\* Seconds the wall clock can advance.
MaxClock == 1
\* form submissions in one session of the page
MaxSubmissions == 2
\* length of the interests texts of the round trip
MaxText == 4

\* ------------------------------------------------------------ Python values
None == [t |-> "none", v |-> <<>>, items |-> <<>>]
Str(s) == [t |-> "str", v |-> <<s>>, items |-> <<>>]
List(l) == [t |-> "list", v |-> l, items |-> <<>>]
Dict(it) == [t |-> "dict", v |-> <<>>, items |-> it]
Item(key, value) == [k |-> key, val |-> value]

\* bool(x): None, "", [] and {} are false
Truthy(x) ==
  CASE x.t = "none" -> FALSE
    [] x.t = "str"  -> x.v[1] # <<>>
    [] x.t = "list" -> x.v # <<>>
    [] x.t = "dict" -> x.items # <<>>

\* sep.join(parts)
RECURSIVE Join(_, _)
Join(sep, parts) ==
  IF parts = <<>> THEN <<>>
  ELSE IF Len(parts) = 1 THEN parts[1]
  ELSE parts[1] \o sep \o Join(sep, Tail(parts))

\* s.replace(old, new) for a one-character old
Replace(s, old, new) == [i \in 1..Len(s) |-> IF s[i] = old THEN new ELSE s[i]]

\* s.split(", "): never empty; "" gives [""]
RECURSIVE SplitFrom(_, _, _)
SplitFrom(s, i, cur) ==
  IF i > Len(s) THEN <<cur>>
  ELSE IF i < Len(s) /\ s[i] = "," /\ s[i + 1] = " "
       THEN <<cur>> \o SplitFrom(s, i + 2, <<>>)
       ELSE SplitFrom(s, i + 1, Append(cur, s[i]))
\* fault: empty parts are dropped
Split_nonempty(s) == SelectSeq(SplitFrom(s, 1, <<>>), LAMBDA part : part # <<>>)
Split(s) == SplitFrom(s, 1, <<>>)

Lowers == <<"a","b","c","d","e","f","g","h","i","j","k","l","m",
            "n","o","p","q","r","s","t","u","v","w","x","y","z">>
Uppers == <<"A","B","C","D","E","F","G","H","I","J","K","L","M",
            "N","O","P","Q","R","S","T","U","V","W","X","Y","Z">>
IsLower(c) == \E i \in 1..Len(Lowers) : Lowers[i] = c
IsUpper(c) == \E i \in 1..Len(Uppers) : Uppers[i] = c
IsLetter(c) == IsLower(c) \/ IsUpper(c)
Upper(c) == IF IsLower(c) THEN Uppers[CHOOSE i \in 1..Len(Lowers) : Lowers[i] = c] ELSE c
Lower(c) == IF IsUpper(c) THEN Lowers[CHOOSE i \in 1..Len(Uppers) : Uppers[i] = c] ELSE c

\* s.title(): a letter that follows a non-letter is upper-cased, any other lower-cased
Title(s) ==
  [i \in 1..Len(s) |->
     IF i = 1 \/ ~IsLetter(s[i - 1]) THEN Upper(s[i]) ELSE Lower(s[i])]

\* repr() of a none/str/list value, as str() of a dict renders its members
ReprStr(s) == <<"'">> \o s \o <<"'">>
ReprVal(x) ==
  CASE x.t = "none" -> <<"None">>
    [] x.t = "str"  -> ReprStr(x.v[1])
    [] x.t = "list" ->
         <<"[">> \o Join(<<", ">>, [i \in 1..Len(x.v) |-> ReprStr(x.v[i])]) \o <<"]">>

\* str(x), which is what an f-string slot {x} and str(value) produce
PyStr(x) ==
  CASE x.t = "none" -> <<"None">>
    [] x.t = "str"  -> x.v[1]
    [] x.t = "list" -> ReprVal(x)
    [] x.t = "dict" ->
         <<"{">> \o Join(<<", ">>,
                    [i \in 1..Len(x.items) |->
                       ReprStr(x.items[i].k) \o <<": ">> \o ReprVal(x.items[i].val)])
                 \o <<"}">>

\* preferences.get(key, default) on a dict value
HasKey(d, key) == \E i \in 1..Len(d.items) : d.items[i].k = key
Get(d, key, default) ==
  IF HasKey(d, key)
  THEN d.items[CHOOSE i \in 1..Len(d.items) : d.items[i].k = key].val
  ELSE default

Digits == <<"0","1","2","3","4","5","6","7","8","9">>
Digit(n) == Digits[n + 1]
DigitVal(c) == (CHOOSE i \in 1..Len(Digits) : Digits[i] = c) - 1
\* str(n) of a number below 100
NatStr(n) == IF n < 10 THEN <<Digit(n)>> ELSE <<Digit(n \div 10), Digit(n % 10)>>

\* ------------------------------------------------------------------ agents
\* ChatOpenAI(model=..., temperature=0.7): constructing the client raises when
\* no OPENAI_API_KEY is in the environment.
ChatOpenAI(model, key) == [raised |-> ~key, model |-> model]

\* fault: the fallback swallows its exception too and agents are built anyway
create_llm_unguarded(key) == [raised |-> FALSE, model |-> "gpt-3.5-turbo"]

\* the llm of create_agents(llm=None): gpt-4o, and on any exception the
\* gpt-3.5-turbo fallback, whose exception is not caught
create_llm(key) ==
  LET first == ChatOpenAI("gpt-4o", key)
  IN  IF ~first.raised THEN first ELSE ChatOpenAI("gpt-3.5-turbo", key)

\* ExaSearchTool() and DuckDuckGoSearchTool(): constructing them reads no
\* package flag and no key, so both are appended
search_tools == <<"Exa Search", "DuckDuckGo Search">>

Agent(name, role, tools, llm) ==
  [name |-> name, role |-> role, tools |-> tools, llm |-> llm, allow_delegation |-> TRUE]

\* create_agents(verbose=...): [raised, error, agents]; agents in the order of
\* the returned dict
create_agents(key) ==
  LET llm == create_llm(key)
      site == search_tools \o <<"Website Search">>
  IN  IF llm.raised
      THEN [raised |-> TRUE, error |-> "OpenAIError", agents |-> <<>>]
      ELSE IF search_tools = <<>>
      THEN [raised |-> TRUE, error |-> "ValueError", agents |-> <<>>]
      ELSE [raised |-> FALSE, error |-> "",
            agents |-> <<
              Agent("destination_researcher", "Travel Destination Researcher",
                    site \o <<"Weather Information">>, llm.model),
              Agent("accommodation_specialist", "Accommodation Specialist", site, llm.model),
              Agent("activities_planner", "Activities and Attractions Planner", site, llm.model),
              Agent("transportation_coordinator", "Transportation Coordinator", site, llm.model),
              Agent("itinerary_compiler", "Itinerary Compiler and Optimizer", <<>>, llm.model) >>]

\* ------------------------------------------------------------------- tasks
NoOutput == [done |-> FALSE, raw |-> <<>>]
Output(text) == [done |-> TRUE, raw |-> text]

\* one interpolated line of a task description: its label and the text the
\* f-string puts after it
Slot(label, text) == [label |-> label, text |-> text]

\* Task(description=..., agent=..., expected_output=..., context=[...])
Task(name, description, agent, context) ==
  [name |-> name, description |-> description, agent |-> agent,
   context |-> context, output |-> NoOutput]

\* fault: the transportation task also takes the accommodation task's output
task_context_with_accommodation(name) ==
  CASE name = "destination_research_task" -> <<>>
    [] name = "accommodation_task" -> <<"destination_research_task">>
    [] name = "activities_task" -> <<"destination_research_task">>
    [] name = "transportation_task" ->
         <<"destination_research_task", "accommodation_task", "activities_task">>
    [] name = "itinerary_task" ->
         <<"destination_research_task", "accommodation_task",
           "activities_task", "transportation_task">>
\* context=[...] of each Task
task_context(name) ==
  CASE name = "destination_research_task" -> <<>>
    [] name = "accommodation_task" -> <<"destination_research_task">>
    [] name = "activities_task" -> <<"destination_research_task">>
    [] name = "transportation_task" -> <<"destination_research_task", "activities_task">>
    [] name = "itinerary_task" ->
         <<"destination_research_task", "accommodation_task",
           "activities_task", "transportation_task">>

\* fault: transportation is listed before activities
task_order_swapped ==
  <<"destination_research_task", "accommodation_task", "transportation_task",
    "activities_task", "itinerary_task">>
\* the list create_tasks returns
task_order ==
  <<"destination_research_task", "accommodation_task", "activities_task",
    "transportation_task", "itinerary_task">>

\* the five f-string descriptions of create_tasks
task_description(name, destination, start_date, end_date, budget, interests, accommodation_preferences, transportation_preferences, travelers) ==
  LET dates == PyStr(start_date) \o <<" to ">> \o PyStr(end_date)
      place(otherwise) == IF Truthy(destination) THEN PyStr(destination) ELSE <<otherwise>>
  IN  CASE name = "destination_research_task" ->
             << Slot("Research", place("potential travel destinations")),
                Slot("Travel dates", dates),
                Slot("Budget", PyStr(budget)),
                Slot("Interests", PyStr(interests)),
                Slot("Number of travelers", PyStr(travelers)),
                Slot("If no specific destination is provided",
                     <<"recommend 3 suitable destinations that match the criteria.">>) >>
        [] name = "accommodation_task" ->
             << Slot("Location", place("To be determined based on destination research")),
                Slot("Check-in date", PyStr(start_date)),
                Slot("Check-out date", PyStr(end_date)),
                Slot("Budget", PyStr(budget)),
                Slot("Preferences", PyStr(accommodation_preferences)),
                Slot("Number of travelers", PyStr(travelers)) >>
        [] name = "activities_task" ->
             << Slot("Location", place("To be determined based on destination research")),
                Slot("Travel dates", dates),
                Slot("Interests", PyStr(interests)),
                Slot("Budget considerations", PyStr(budget)),
                Slot("Number of travelers", PyStr(travelers)) >>
        [] name = "transportation_task" ->
             << Slot("Travel dates", dates),
                Slot("Budget", PyStr(budget)),
                Slot("Preferences", PyStr(transportation_preferences)),
                Slot("Number of travelers", PyStr(travelers)) >>
        [] name = "itinerary_task" ->
             << Slot("Travel dates", dates),
                Slot("Destination", place("As determined by research")) >>

task_agent(name) ==
  CASE name = "destination_research_task" -> "destination_researcher"
    [] name = "accommodation_task" -> "accommodation_specialist"
    [] name = "activities_task" -> "activities_planner"
    [] name = "transportation_task" -> "transportation_coordinator"
    [] name = "itinerary_task" -> "itinerary_compiler"

\* create_tasks(agents, destination=None, start_date=None, end_date=None,
\*              budget=None, interests=None, accommodation_preferences=None,
\*              transportation_preferences=None, travelers=None)
create_tasks(destination, start_date, end_date, budget, interests, accommodation_preferences, transportation_preferences, travelers) ==
  [i \in 1..Len(task_order) |->
     Task(task_order[i],
          task_description(task_order[i], destination, start_date, end_date, budget,
                           interests, accommodation_preferences,
                           transportation_preferences, travelers),
          task_agent(task_order[i]),
          task_context(task_order[i]))]

\* ------------------------------------------------------------ dates, clock
\* datetime.strptime(s, "%Y-%m-%d"): [raised, y, m, d]; ValueError unless s is
\* four digits, "-", two digits, "-", two digits naming a day of the calendar
IsDigit(c) == \E i \in 1..Len(Digits) : Digits[i] = c
IsLeap(y) == (y % 4 = 0 /\ y % 100 # 0) \/ y % 400 = 0
DaysInMonth(y, m) ==
  IF m = 2 THEN (IF IsLeap(y) THEN 29 ELSE 28)
  ELSE IF m \in {4, 6, 9, 11} THEN 30 ELSE 31
strptime(s) ==
  LET shaped == /\ Len(s) = 10
                /\ s[5] = "-" /\ s[8] = "-"
                /\ \A i \in {1, 2, 3, 4, 6, 7, 9, 10} : IsDigit(s[i])
      y == 1000 * DigitVal(s[1]) + 100 * DigitVal(s[2]) + 10 * DigitVal(s[3]) + DigitVal(s[4])
      m == 10 * DigitVal(s[6]) + DigitVal(s[7])
      d == 10 * DigitVal(s[9]) + DigitVal(s[10])
  IN  IF shaped /\ y >= 1 /\ m \in 1..12 /\ d >= 1 /\ d <= DaysInMonth(y, m)
      THEN [raised |-> FALSE, y |-> y, m |-> m, d |-> d]
      ELSE [raised |-> TRUE, y |-> 0, m |-> 0, d |-> 0]

\* date.toordinal(), which (end - start).days subtracts
RECURSIVE DaysBeforeMonth(_, _)
DaysBeforeMonth(y, m) == IF m = 1 THEN 0 ELSE DaysBeforeMonth(y, m - 1) + DaysInMonth(y, m - 1)
ToOrdinal(dt) ==
  LET py == dt.y - 1
  IN  365 * py + (py \div 4) - (py \div 100) + (py \div 400) + DaysBeforeMonth(dt.y, dt.m) + dt.d

\* str(n) of an integer of at most two digits
IntStr(n) == IF n < 0 THEN <<"-">> \o NatStr(0 - n) ELSE NatStr(n)

\* datetime.now().strftime("%Y%m%d_%H%M%S") at second `now` of the modelled minute
strftime(now) ==
  <<"2","0","2","4","0","6","1","0","_","1","2","0","0">> \o <<Digit(now \div 10), Digit(now % 10)>>

\* ------------------------------------------------------------ _save_itinerary
Sep == <<",", " ">>

\* fault: the destination goes into the name as it is
save_filename_keeps_spaces(preferences, timestamp) ==
  LET destination == Get(preferences, <<"d","e","s","t","i","n","a","t","i","o","n">>, Str(<<"C","u","s","t","o","m">>))
  IN  IF destination.t # "str"
      THEN [raised |-> TRUE, filename |-> <<>>]
      ELSE [raised |-> FALSE,
            filename |-> <<"travel_plans/">> \o destination.v[1]
                         \o <<"_">> \o timestamp \o <<".md">>]
\* filename of _save_itinerary: [raised, filename].  None has no replace().
save_filename(preferences, timestamp) ==
  LET destination == Get(preferences, <<"d","e","s","t","i","n","a","t","i","o","n">>, Str(<<"C","u","s","t","o","m">>))
  IN  IF destination.t # "str"
      THEN [raised |-> TRUE, filename |-> <<>>]
      ELSE [raised |-> FALSE,
            filename |-> <<"travel_plans/">> \o Replace(destination.v[1], " ", "_")
                         \o <<"_">> \o timestamp \o <<".md">>]

\* fault: a list is rendered with str() like any other value
formatted_value_str(value) == PyStr(value)
\* formatted_value of one preference
formatted_value(value) == IF value.t = "list" THEN Join(Sep, value.v) ELSE PyStr(value)

\* one "- **Key:** value\n" line of the header
header_line(item) ==
  <<"- **">> \o Title(Replace(item.k, "_", " ")) \o <<":** ">>
  \o formatted_value(item.val) \o <<"\n">>

\* the lines the loop over preferences.items() appends, in order
RECURSIVE header_lines(_)
header_lines(items) ==
  IF items = <<>> THEN <<>> ELSE header_line(Head(items)) \o header_lines(Tail(items))

header(preferences) ==
  <<"# Travel Itinerary\n\n", "## Travel Preferences\n\n">>
  \o header_lines(preferences.items)
  \o <<"\n## Itinerary\n\n">>

\* fault: only the header is written
document_truncated(preferences, itinerary) == header(preferences)
\* what f.write(header + itinerary) writes
document(preferences, itinerary) == header(preferences) \o itinerary

\* ------------------------------------------------------------------ inputs
\* the travel_preferences dict plan_trip builds
plan_trip_preferences(a) ==
  LET s == strptime(a.start_date)
      e == strptime(a.end_date)
      duration == ToOrdinal(e) - ToOrdinal(s)
  IN  Dict(<< Item(<<"d","e","s","t","i","n","a","t","i","o","n">>, a.destination),
              Item(<<"t","r","a","v","e","l","_","d","a","t","e","s">>, Str(a.start_date \o <<" to ">> \o a.end_date)),
              Item(<<"d","u","r","a","t","i","o","n">>, Str(IntStr(duration) \o <<" days">>)),
              Item(<<"b","u","d","g","e","t">>, a.budget),
              Item(<<"t","r","a","v","e","l","e","r","s">>, a.travelers),
              Item(<<"i","n","t","e","r","e","s","t","s">>, List(Split(a.interests.v[1]))),
              Item(<<"a","c","c","o","m","m","o","d","a","t","i","o","n","_","t","y","p","e">>, a.accommodation_preferences),
              Item(<<"t","r","a","n","s","p","o","r","t","a","t","i","o","n">>, a.transportation_preferences) >>)

Args(destination, start_date, end_date, interests) ==
  [destination |-> Str(destination), start_date |-> start_date, end_date |-> end_date,
   budget |-> Str(<<"Mid-range">>), interests |-> Str(interests),
   accommodation_preferences |-> Str(<<"Hotel">>),
   transportation_preferences |-> Str(<<"Public Transit">>),
   travelers |-> Str(<<"2">>)]

TokyoJapan == <<"T","o","k","y","o",","," ","J","a","p","a","n">>
June10 == <<"2","0","2","4","-","0","6","-","1","0">>
June17 == <<"2","0","2","4","-","0","6","-","1","7">>
FoodCulture == <<"F","o","o","d",","," ","C","u","l","t","u","r","e">>

\* plan_trip calls: the Tokyo trip, the same trip with the destination left
\* blank as the form submits it, and a start date strptime rejects
TokyoArgs == Args(TokyoJapan, June10, June17, FoodCulture)
BlankArgs == Args(<<>>, June10, June17, FoodCulture)
BadDateArgs == Args(TokyoJapan, <<"J","u","n","e"," ","1","0">>, June17, FoodCulture)
PlanTripInputs == {TokyoArgs, BlankArgs, BadDateArgs}

\* kickoff calls: the example of main.py, a dict without a destination key,
\* a dict whose destination is None, and the empty dict
ExamplePreferences ==
  Dict(<< Item(<<"d","e","s","t","i","n","a","t","i","o","n">>, Str(<<"J","a","p","a","n">>)),
          Item(<<"t","r","a","v","e","l","_","d","a","t","e","s">>, Str(<<"June 10-20, 2024">>)),
          Item(<<"d","u","r","a","t","i","o","n">>, Str(<<"10 days">>)),
          Item(<<"b","u","d","g","e","t">>, Str(<<"$3000 USD">>)),
          Item(<<"t","r","a","v","e","l","e","r","s">>, Str(<<"2 adults">>)),
          Item(<<"i","n","t","e","r","e","s","t","s">>, List(<< <<"c","u","l","t","u","r","e">>, <<"f","o","o","d">> >>)),
          Item(<<"a","c","c","o","m","m","o","d","a","t","i","o","n","_","t","y","p","e">>, Str(<<"mid-range hotels">>)),
          Item(<<"p","a","c","e">>, Str(<<"moderate">>)) >>)
NoDestinationPreferences ==
  Dict(<< Item(<<"b","u","d","g","e","t">>, Str(<<"$3000 USD">>)),
          Item(<<"i","n","t","e","r","e","s","t","s">>, List(<< <<"f","o","o","d">> >>)) >>)
NoneDestinationPreferences ==
  Dict(<< Item(<<"d","e","s","t","i","n","a","t","i","o","n">>, None),
          Item(<<"b","u","d","g","e","t">>, Str(<<"$3000 USD">>)) >>)
KickoffInputs ==
  {ExamplePreferences, NoDestinationPreferences, NoneDestinationPreferences, Dict(<<>>)}

\* texts the model returns for a task
ResultTexts(name) ==
  CASE name = "destination_research_task" -> {<<"Japan in June">>}
    [] name = "accommodation_task" -> {<<"Hotels">>}
    [] name = "activities_task" -> {<<"Temples and markets">>}
    [] name = "transportation_task" -> {<<"Rail pass">>}
    [] name = "itinerary_task" -> {<<>>, <<"Day 1: arrive">>}

\* outcomes of open(filename, "w") ... f.write(...)
IoOutcomes == {"ok", "open_error", "write_error"}

\* ------------------------------------------------------------------- state
VARIABLES
  env_key,      \* OPENAI_API_KEY is set in the process environment
  clock,        \* the last second datetime.now() returned
  files,        \* travel_plans/: the set of [name, content], one per name
  agents,       \* self.agents (<<>> is None)
  tasks,        \* self.tasks, the list the crew runs (<<>> is None)
  crew,         \* self.crew
  pc,           \* "idle", "crew" (in crew.kickoff()), "save", "done", "failed"
  mode,         \* the entry point of the current call: "kickoff" or "plan_trip"
  preferences,  \* travel_preferences of the current call
  result,       \* kickoff's local: what crew.kickoff() returned
  filename,     \* kickoff's local: what _save_itinerary returned (<<>> before)
  ret,          \* what the call returned: <<text, filename>>, <<text>>, <<>> for nothing
  err,          \* the exception the call ended with, "" for none
  runs,         \* calls made so far
  invoked,      \* names of the tasks executed in this call, in order
  contexts,     \* for each executed task, the context it was given
  files0,       \* travel_plans/ as it was when the call started
  writes        \* files opened for writing by this call

\* lookup tools (tools.py): one invocation at a time, no state kept between
VARIABLES
  has_exa,      \* HAS_EXA: exa_py could be imported
  has_ddgs,     \* HAS_DDGS: duckduckgo_search could be imported
  exa_key,      \* EXA_API_KEY is set in the process environment
  tool_call,    \* the last tool invocation: the tool, its arguments, what the network did
  tool_out,     \* what it did: [raised, text]
  requests,     \* the HTTP requests it issued, in order
  built         \* what create_agents did when called with these tools

\* the page (app.py): one script run per form submission
VARIABLES
  app_pc,       \* "form" (nothing submitted), "call" (about to call plan_trip),
                \* "planning" (inside plan_trip), "shown" (the script run ended)
  form,         \* the fields of the submission being handled
  ui,           \* what this script run has displayed, in order
  submissions,  \* submissions handled so far
  constructed,  \* TravelPlannerSystem objects this submission constructed
  calls,        \* plan_trip invocations of this submission
  env_set,      \* this submission wrote a credential into os.environ
  app_err,      \* the exception that reached the handler's try block, "" for none
  escaped       \* an exception left main()

\* the interests value on its way from the caller to the saved header
VARIABLES
  rt_pc,        \* "form", "text", "split", "saved"
  rt_form,      \* the multiselect and the notes of the form
  rt_text,      \* the interests text passed to plan_trip
  rt_list,      \* travel_preferences["interests"]
  rt_line       \* the header line written for it

orch_vars == <<env_key, clock, files, agents, tasks, crew, pc, mode, preferences, result,
               filename, ret, err, runs, invoked, contexts, files0, writes>>
tool_vars == <<has_exa, has_ddgs, exa_key, tool_call, tool_out, requests, built>>
app_vars == <<app_pc, form, ui, submissions, constructed, calls, env_set, app_err, escaped>>
rt_vars == <<rt_pc, rt_form, rt_text, rt_list, rt_line>>
vars == <<orch_vars, tool_vars, app_vars, rt_vars>>

NoCall == [tool |-> "", arg |-> <<>>, query |-> <<>>, page |-> <<>>, net |-> "", n |-> 0, flags |-> {}]
NoOut == [raised |-> FALSE, text |-> <<>>]
NotBuilt == [raised |-> FALSE, error |-> "", agents |-> <<>>]

\* no tool has been invoked
ToolsIdle ==
  /\ tool_call = NoCall
  /\ tool_out = NoOut
  /\ requests = <<>>
  /\ built = NotBuilt

NoCrew == [agents |-> <<>>, tasks |-> <<>>, process |-> ""]

NoForm == [openai_api_key |-> <<>>, exa_api_key |-> <<>>, destination |-> <<>>,
           interests |-> <<>>, additional_preferences |-> <<>>, travelers |-> 2]
NoRtForm == [interests |-> <<>>, additional_preferences |-> <<>>]

\* the page is loaded and nothing has been submitted
AppIdle ==
  /\ app_pc = "form"
  /\ form = NoForm
  /\ ui = <<>>
  /\ submissions = 0
  /\ constructed = 0
  /\ calls = 0
  /\ env_set = FALSE
  /\ app_err = ""
  /\ escaped = FALSE

\* no interests value is under way
RoundTripIdle ==
  /\ rt_pc = "text"
  /\ rt_form = NoRtForm
  /\ rt_text = <<>>
  /\ rt_list = <<>>
  /\ rt_line = <<>>

\* after TravelPlannerSystem(): no agents, tasks or crew; travel_plans/ exists
Constructed ==
  /\ env_key \in BOOLEAN
  /\ clock = 0
  /\ files = {}
  /\ agents = <<>>
  /\ tasks = <<>>
  /\ crew = NoCrew
  /\ pc = "idle"
  /\ mode = ""
  /\ preferences = Dict(<<>>)
  /\ result = <<>>
  /\ filename = <<>>
  /\ ret = <<>>
  /\ err = ""
  /\ runs = 0
  /\ invoked = <<>>
  /\ contexts = <<>>
  /\ files0 = {}
  /\ writes = 0

Init ==
  /\ Constructed
  /\ has_exa = TRUE /\ has_ddgs = TRUE /\ exa_key = TRUE
  /\ ToolsIdle
  /\ AppIdle
  /\ RoundTripIdle

Names(records) == [i \in 1..Len(records) |-> records[i].name]

\* self.tasks = create_tasks(self.agents, travel_preferences)
initialize_tasks(travel_preferences) ==
  create_tasks(travel_preferences, None, None, None, None, None, None, None)

\* the call starts: bookkeeping of a new call
BeginCall(m, p) ==
  /\ pc \in {"idle", "done", "failed"}
  /\ runs < MaxRuns
  /\ runs' = runs + 1
  /\ mode' = m
  /\ preferences' = p
  /\ result' = <<>>
  /\ filename' = <<>>
  /\ ret' = <<>>
  /\ invoked' = <<>>
  /\ contexts' = <<>>
  /\ files0' = files
  /\ writes' = 0
  /\ UNCHANGED <<env_key, clock, files>>

\* fault: agents, tasks and crew are built by the first call only
initialize_once(travel_preferences) ==
  LET a == create_agents(env_key)
  IN  IF a.raised
      THEN /\ pc' = "failed"
           /\ err' = a.error
           /\ UNCHANGED <<agents, tasks, crew>>
      ELSE /\ agents' = IF agents = <<>> THEN a.agents ELSE agents
           /\ tasks' = IF tasks = <<>> THEN initialize_tasks(travel_preferences) ELSE tasks
           /\ crew' = IF crew = NoCrew
                      THEN [agents |-> Names(a.agents),
                            tasks |-> Names(initialize_tasks(travel_preferences)),
                            process |-> "sequential"]
                      ELSE crew
           /\ pc' = "crew"
           /\ err' = ""

\* initialize(travel_preferences), up to the call of self.crew.kickoff()
initialize(travel_preferences) ==
  LET a == create_agents(env_key)
  IN  IF a.raised
      THEN /\ pc' = "failed"
           /\ err' = a.error
           /\ UNCHANGED <<agents, tasks, crew>>
      ELSE /\ agents' = a.agents
           /\ tasks' = initialize_tasks(travel_preferences)
           /\ crew' = [agents |-> Names(a.agents),
                       tasks |-> Names(initialize_tasks(travel_preferences)),
                       process |-> "sequential"]
           /\ pc' = "crew"
           /\ err' = ""

\* kickoff(travel_preferences), called directly
kickoff ==
  \E p \in KickoffInputs :
    /\ BeginCall("kickoff", p)
    /\ initialize(p)

\* plan_trip(destination, start_date, ...) called with the arguments a: the
\* dates are parsed first
plan_trip_call(a) ==
  IF strptime(a.start_date).raised \/ strptime(a.end_date).raised
  THEN /\ BeginCall("plan_trip", Dict(<<>>))
       /\ pc' = "failed"
       /\ err' = "ValueError"
       /\ UNCHANGED <<agents, tasks, crew>>
  ELSE /\ BeginCall("plan_trip", plan_trip_preferences(a))
       /\ initialize(plan_trip_preferences(a))

\* plan_trip called directly
plan_trip == \E a \in PlanTripInputs : plan_trip_call(a)

\* index in self.tasks of the task called name, 0 if there is none
TaskIndex(name) ==
  IF \E i \in 1..Len(tasks) : tasks[i].name = name
  THEN CHOOSE i \in 1..Len(tasks) : tasks[i].name = name
  ELSE 0

\* the context a sequential crew hands a task: the outputs, in the order
\* declared, of the tasks in task.context that have one
RECURSIVE context_of(_)
context_of(names) ==
  IF names = <<>> THEN <<>>
  ELSE LET i == TaskIndex(Head(names))
       IN  (IF i > 0 /\ tasks[i].output.done
            THEN <<[task |-> Head(names), text |-> tasks[i].output.raw]>>
            ELSE <<>>) \o context_of(Tail(names))

\* crew.kickoff() with Process.sequential: the next task of the list runs with
\* its context; it returns a text, or the model call raises and the run ends
execute_task ==
  /\ pc = "crew"
  /\ LET k == Len(invoked) + 1
         t == tasks[k]
     IN  /\ invoked' = Append(invoked, t.name)
         /\ contexts' = Append(contexts, context_of(t.context))
         /\ \/ \E text \in ResultTexts(t.name) :
                 /\ tasks' = [tasks EXCEPT ![k].output = Output(text)]
                 /\ IF k = Len(tasks)
                    THEN pc' = "save" /\ result' = text
                    ELSE pc' = "crew" /\ result' = result
                 /\ err' = ""
            \/ /\ pc' = "failed"
               /\ err' = "TaskError"
               /\ UNCHANGED <<tasks, result>>
  /\ UNCHANGED <<env_key, clock, files, agents, crew, mode, preferences, filename, ret,
                 runs, files0, writes>>

\* travel_plans/ after open(path, "w") and a write of content: the file
\* is created, or truncated if it exists
Written(path, content) ==
  {f \in files : f.name # path} \cup {[name |-> path, content |-> content]}

\* _save_itinerary(result, travel_preferences) and the return of kickoff and
\* of plan_trip.  now is what datetime.now() returns; io is what the file
\* system does: open() raises, or the write raises after open() created the
\* file, or both succeed.
_save_itinerary ==
  /\ pc = "save"
  /\ \E now \in clock..MaxClock, io \in IoOutcomes :
       LET fn == save_filename(preferences, strftime(now))
       IN  /\ clock' = now
           /\ IF fn.raised
              THEN /\ pc' = "failed"
                   /\ err' = "AttributeError"
                   /\ io = "ok"
                   /\ UNCHANGED <<files, writes, ret, filename>>
              ELSE CASE io = "open_error" ->
                          /\ pc' = "failed"
                          /\ err' = "OSError"
                          /\ UNCHANGED <<files, writes, ret, filename>>
                     [] io = "write_error" ->
                          /\ files' = Written(fn.filename, <<>>)
                          /\ writes' = writes + 1
                          /\ pc' = "failed"
                          /\ err' = "OSError"
                          /\ UNCHANGED <<ret, filename>>
                     [] io = "ok" ->
                          /\ files' = Written(fn.filename, document(preferences, result))
                          /\ writes' = writes + 1
                          /\ pc' = "done"
                          /\ err' = ""
                          /\ filename' = fn.filename
                          /\ ret' = IF mode = "kickoff"
                                    THEN <<result, fn.filename>>
                                    ELSE <<result>>
  /\ UNCHANGED <<env_key, agents, tasks, crew, mode, preferences, result, runs,
                 invoked, contexts, files0>>

Next ==
  \/ kickoff /\ UNCHANGED <<tool_vars, app_vars, rt_vars>>
  \/ plan_trip /\ UNCHANGED <<tool_vars, app_vars, rt_vars>>
  \/ execute_task /\ UNCHANGED <<tool_vars, app_vars, rt_vars>>
  \/ _save_itinerary /\ UNCHANGED <<tool_vars, app_vars, rt_vars>>

Spec == Init /\ [][Next]_vars

\* ------------------------------------------------------------ lookup tools
\* str(e) of the exception a failed request or parse raises
ErrorText(net) == <<"<", net, ">">>

\* formatted_results of a search tool: "No results found." for none, else the
\* numbered entries joined with "\n"
SearchHit(i) == <<Digit(i), ". ", "title", "\n   URL: ", "url", "\n   Snippet: ", "text", "...\n">>
formatted_results(n) ==
  IF n = 0 THEN <<"No results found.">>
  ELSE Join(<<"\n">>, [i \in 1..n |-> SearchHit(i)])

\* fault: a missing package or key is raised instead of returned
ExaSearchTool_run_raising(has_package, key, query, net, n) ==
  IF ~has_package \/ ~key
  THEN [raised |-> TRUE, text |-> <<>>]
  ELSE IF net # "ok"
  THEN [raised |-> FALSE, text |-> <<"Error ", "performing Exa search: ">> \o ErrorText(net)]
  ELSE [raised |-> FALSE, text |-> formatted_results(n)]

\* ExaSearchTool._run(query); net is what exa.search did, n the results it gave
ExaSearchTool_run(has_package, key, query, net, n) ==
  IF ~has_package
  THEN [raised |-> FALSE,
        text |-> <<"Error: ", "Exa package is not installed. Please install it with 'pip install exa-py'.">>]
  ELSE IF ~key
  THEN [raised |-> FALSE, text |-> <<"Error: ", "EXA_API_KEY environment variable not set.">>]
  ELSE IF net # "ok"
  THEN [raised |-> FALSE, text |-> <<"Error ", "performing Exa search: ">> \o ErrorText(net)]
  ELSE [raised |-> FALSE, text |-> formatted_results(n)]

\* DuckDuckGoSearchTool._run(query)
DuckDuckGoSearchTool_run(has_package, query, net, n) ==
  IF ~has_package
  THEN [raised |-> FALSE,
        text |-> <<"Error: ", "DuckDuckGo Search package is not installed. Please install it with 'pip install duckduckgo-search'.">>]
  ELSE IF net # "ok"
  THEN [raised |-> FALSE, text |-> <<"Error ", "performing DuckDuckGo search: ">> \o ErrorText(net)]
  ELSE [raised |-> FALSE, text |-> formatted_results(n)]

\* max_results=5 / num_results=5
SearchResults == 5

\* text[:2000] and relevant_paragraphs[:5]
ContentLimit == 2000
RelevantLimit == 5

LowerText(s) == [i \in 1..Len(s) |-> Lower(s[i])]
\* needle in s
Within(needle, s) ==
  \E i \in 0..(Len(s) - Len(needle)) : \A j \in 1..Len(needle) : s[i + j] = needle[j]

\* fault: no try/except around the request
WebsiteSearchTool_run_unguarded(url, query, net, text) ==
  IF net # "ok"
  THEN [raised |-> TRUE, text |-> <<>>]
  ELSE [raised |-> FALSE, text |-> <<"Information from ">> \o url \o <<":\n\n">> \o text]

\* WebsiteSearchTool._run(url, query).  net is what requests.get,
\* raise_for_status and BeautifulSoup did; text is the cleaned page text, whose
\* non-empty chunks are joined with single "\n", so text.split("\n\n") is [text].
WebsiteSearchTool_run(url, query, net, text) ==
  IF net # "ok"
  THEN [raised |-> FALSE,
        text |-> <<"Error extracting information from website: ">> \o ErrorText(net)]
  ELSE LET paragraphs == <<text>>
           relevant == SelectSeq(paragraphs, LAMBDA p : Within(LowerText(query), LowerText(p)))
           shown == SubSeq(relevant, 1, IF Len(relevant) < RelevantLimit
                                        THEN Len(relevant) ELSE RelevantLimit)
       IN  IF query # <<>> /\ relevant # <<>>
           THEN [raised |-> FALSE,
                 text |-> <<"Information from ">> \o url \o <<" related to '">> \o query
                          \o <<"':\n\n">> \o Join(<<"\n\n">>, shown)]
           ELSE [raised |-> FALSE,
                 text |-> <<"Information from ">> \o url \o <<":\n\n">>
                          \o (IF Len(text) > ContentLimit
                              THEN SubSeq(text, 1, ContentLimit) \o <<"...">>
                              ELSE text)]

\* _get_weather_description(code)
_get_weather_description(code) ==
  CASE code = 0 -> "Clear sky"
    [] code = 1 -> "Mainly clear"
    [] code = 2 -> "Partly cloudy"
    [] code = 3 -> "Overcast"
    [] code = 45 -> "Fog"
    [] code = 48 -> "Depositing rime fog"
    [] code = 51 -> "Light drizzle"
    [] code = 53 -> "Moderate drizzle"
    [] code = 55 -> "Dense drizzle"
    [] code = 56 -> "Light freezing drizzle"
    [] code = 57 -> "Dense freezing drizzle"
    [] code = 61 -> "Slight rain"
    [] code = 63 -> "Moderate rain"
    [] code = 65 -> "Heavy rain"
    [] code = 66 -> "Light freezing rain"
    [] code = 67 -> "Heavy freezing rain"
    [] code = 71 -> "Slight snow fall"
    [] code = 73 -> "Moderate snow fall"
    [] code = 75 -> "Heavy snow fall"
    [] code = 77 -> "Snow grains"
    [] code = 80 -> "Slight rain showers"
    [] code = 81 -> "Moderate rain showers"
    [] code = 82 -> "Violent rain showers"
    [] code = 85 -> "Slight snow showers"
    [] code = 86 -> "Heavy snow showers"
    [] code = 95 -> "Thunderstorm"
    [] code = 96 -> "Thunderstorm with slight hail"
    [] code = 99 -> "Thunderstorm with heavy hail"
    [] OTHER -> "Unknown"

\* "forecast_days": 14 and range(min(7, len(dates)))
ForecastDays == 14
DisplayDays == 7

\* the daily arrays of a forecast response of n days: time, weather_code,
\* temperature_2m_min, temperature_2m_max, precipitation_sum; in a ragged
\* response precipitation_sum is one entry short
DayCodes == <<0, 1, 2, 3, 45, 61, 95, 4, 80, 71, 99, 63, 2, 0>>
DailyTime(n) == [i \in 1..n |-> <<"2024-06-">> \o NatStr(9 + i)]
DailyCodes(n) == [i \in 1..n |-> DayCodes[i]]
DailyMin(n) == [i \in 1..n |-> NatStr(10 + i)]
DailyMax(n) == [i \in 1..n |-> NatStr(20 + i)]
DailyPrecip(n, ragged) == [i \in 1..(IF ragged /\ n > 0 THEN n - 1 ELSE n) |-> NatStr(i)]

Min(a, b) == IF a < b THEN a ELSE b

\* the loop over range(limit): [raised, lines]; an index past
\* the end of a shorter array raises IndexError
RECURSIVE daily_lines(_, _, _, _, _, _, _)
daily_lines(i, limit, dates, codes, mins, maxs, precip) ==
  IF i > limit THEN [raised |-> FALSE, lines |-> <<>>]
  ELSE IF i > Len(codes) \/ i > Len(mins) \/ i > Len(maxs) \/ i > Len(precip)
  THEN [raised |-> TRUE, lines |-> <<>>]
  ELSE LET rest == daily_lines(i + 1, limit, dates, codes, mins, maxs, precip)
       IN  [raised |-> rest.raised,
            lines |-> dates[i] \o <<": ", _get_weather_description(codes[i]), ", ">>
                      \o mins[i] \o <<" C to ">> \o maxs[i] \o <<" C, ", "Precipitation: ">>
                      \o precip[i] \o <<" mm\n">> \o rest.lines]

\* fault: every fetched day is shown
daily_window_all(n) == n
\* min(7, len(dates)): the days of the response the loop shows
daily_window(n) == Min(DisplayDays, n)

\* fault: only a missing "results" key counts as not found
geocode_found_unless_missing(geo) == geo # "missing"
\* geocode_data.get("results") is truthy: the key is there and the list not empty
geocode_found(geo) == geo = "found"

\* WeatherInfoTool._run(location): [raised, text, requests].
\*   geo_net, wx_net  what the geocoding and the forecast request did
\*   geo              "missing" (no results key), "empty" (results: []), "found"
\*   n                days in the daily arrays
\*   flags            "country": the result names a country; "current" / "daily":
\*                    the response has that block; "code": current has a
\*                    weather_code; "ragged": precipitation_sum is short
\* (" C" stands for the degree sign and C)
WeatherInfoTool_run(location, geo_net, geo, wx_net, n, flags) ==
  LET failed(e, reqs) ==
        [raised |-> FALSE,
         text |-> <<"Error retrieving weather information: ">> \o ErrorText(e),
         requests |-> reqs]
      country == IF "country" \in flags THEN <<"Japan">> ELSE <<>>
      current == IF "current" \in flags
                 THEN <<"Current conditions: ",
                        _get_weather_description(IF "code" \in flags THEN 61 ELSE 0),
                        ", ", "21.5", " C, ", "Wind: ", "12.0", " km/h\n\n">>
                 ELSE <<>>
      days == daily_lines(1, daily_window(Len(DailyTime(n))), DailyTime(n), DailyCodes(n),
                          DailyMin(n), DailyMax(n), DailyPrecip(n, "ragged" \in flags))
      location_name == <<"Tokyo">>
  IN  IF geo_net # "ok" THEN failed(geo_net, <<"geocode">>)
      ELSE IF ~geocode_found(geo)
      THEN [raised |-> FALSE, text |-> <<"Could not find location: ">> \o location,
            requests |-> <<"geocode">>]
      ELSE IF wx_net # "ok" THEN failed(wx_net, <<"geocode", "forecast">>)
      ELSE IF "daily" \in flags /\ days.raised
      THEN failed("list index out of range", <<"geocode", "forecast">>)
      ELSE [raised |-> FALSE,
            text |-> <<"Weather information for ">> \o location_name \o <<", ">> \o country
                     \o <<":\n\n">> \o current
                     \o (IF "daily" \in flags THEN <<"Daily forecast:\n">> \o days.lines
                         ELSE <<>>),
            requests |-> <<"geocode", "forecast">>]

\* what the network does to a request
Nets == {"ok", "ConnectionError", "Timeout"}
\* and to the website tool: also a non-success status and a parsing failure
WebsiteNets == Nets \cup {"HTTPError", "ParseError"}
Queries == {<<>>, <<"r","a","i","l">>, <<"v","i","s","a">>}
Urls == {<<"https://example.com/japan">>}
Pages == {<<>>, <<"R","a","i","l"," ","p","a","s","s">>}
Locations == {<<"T","o","k","y","o">>, <<"Nowhereistan12345">>}
WeatherFlags ==
  {f \in SUBSET {"country", "current", "code", "daily", "ragged"} :
     /\ "code" \in f => "current" \in f
     /\ "ragged" \in f => "daily" \in f}

Call(tool, arg, query, net, n, flags) ==
  [tool |-> tool, arg |-> arg, query |-> query, page |-> <<>>, net |-> net, n |-> n, flags |-> flags]

\* an agent invokes the Exa search tool
exa_search ==
  /\ tool_call = NoCall
  /\ \E query \in Queries \ {<<>>}, net \in Nets, n \in 0..SearchResults :
       /\ (net # "ok" \/ ~has_exa \/ ~exa_key) => n = 0
       /\ tool_call' = Call("Exa Search", <<>>, query, net, n, {})
       /\ tool_out' = ExaSearchTool_run(has_exa, exa_key, query, net, n)
       /\ requests' = IF has_exa /\ exa_key THEN <<"exa">> ELSE <<>>
  /\ UNCHANGED <<has_exa, has_ddgs, exa_key, built>>

\* an agent invokes the DuckDuckGo search tool
ddg_search ==
  /\ tool_call = NoCall
  /\ \E query \in Queries \ {<<>>}, net \in Nets, n \in 0..SearchResults :
       /\ (net # "ok" \/ ~has_ddgs) => n = 0
       /\ tool_call' = Call("DuckDuckGo Search", <<>>, query, net, n, {})
       /\ tool_out' = DuckDuckGoSearchTool_run(has_ddgs, query, net, n)
       /\ requests' = IF has_ddgs THEN <<"ddg">> ELSE <<>>
  /\ UNCHANGED <<has_exa, has_ddgs, exa_key, built>>

\* an agent invokes the website tool
website_search ==
  /\ tool_call = NoCall
  /\ \E url \in Urls, query \in Queries, net \in WebsiteNets, text \in Pages :
       /\ net # "ok" => text = <<>>
       /\ tool_call' = [Call("Website Search", url, query, net, 0, {}) EXCEPT !.page = text]
       /\ tool_out' = WebsiteSearchTool_run(url, query, net, text)
       /\ requests' = <<"get">>
  /\ UNCHANGED <<has_exa, has_ddgs, exa_key, built>>

\* an agent invokes the weather tool
weather_info ==
  /\ tool_call = NoCall
  /\ \E location \in Locations, geo_net \in Nets, geo \in {"missing", "empty", "found"},
        wx_net \in Nets, n \in 0..ForecastDays, flags \in WeatherFlags :
       LET r == WeatherInfoTool_run(location, geo_net, geo, wx_net, n, flags)
       IN  /\ geo_net # "ok" => geo = "missing"
           /\ (geo_net # "ok" \/ geo # "found") => wx_net = "ok"
           /\ (geo_net # "ok" \/ geo # "found" \/ wx_net # "ok") => (n = 0 /\ flags = {})
           /\ "daily" \notin flags => n = 0
           /\ tool_call' = Call("Weather Information", location, <<geo_net, geo>>, wx_net, n, flags)
           /\ tool_out' = [raised |-> r.raised, text |-> r.text]
           /\ requests' = r.requests
  /\ UNCHANGED <<has_exa, has_ddgs, exa_key, built>>

\* create_agents() is called with the tools as they are
tools_create_agents ==
  /\ tool_call = NoCall
  /\ tool_call' = Call("create_agents", <<>>, <<>>, "", 0, {})
  /\ built' = create_agents(env_key)
  /\ UNCHANGED <<has_exa, has_ddgs, exa_key, tool_out, requests>>

\* the caller takes the result
tool_return ==
  /\ tool_call # NoCall
  /\ tool_call' = NoCall
  /\ tool_out' = NoOut
  /\ requests' = <<>>
  /\ built' = NotBuilt
  /\ UNCHANGED <<has_exa, has_ddgs, exa_key>>

ToolInit ==
  /\ Constructed
  /\ has_exa \in BOOLEAN /\ has_ddgs \in BOOLEAN /\ exa_key \in BOOLEAN
  /\ ToolsIdle
  /\ AppIdle
  /\ RoundTripIdle

ToolNext ==
  \/ exa_search /\ UNCHANGED <<orch_vars, app_vars, rt_vars>>
  \/ ddg_search /\ UNCHANGED <<orch_vars, app_vars, rt_vars>>
  \/ website_search /\ UNCHANGED <<orch_vars, app_vars, rt_vars>>
  \/ weather_info /\ UNCHANGED <<orch_vars, app_vars, rt_vars>>
  \/ tools_create_agents /\ UNCHANGED <<orch_vars, app_vars, rt_vars>>
  \/ tool_return /\ UNCHANGED <<orch_vars, app_vars, rt_vars>>

ToolSpec == ToolInit /\ [][ToolNext]_vars

\* --------------------------------------------------------------- the page
\* one thing a script run displays: st.error, st.markdown, progress_bar.progress,
\* status_text.text, st.download_button
Shown(kind, text, value) == [kind |-> kind, text |-> text, value |-> value]
Error(text) == Shown("error", text, 0)
Markdown(text) == Shown("markdown", text, 0)
Progress(value) == Shown("progress", <<>>, value)
Status(text) == Shown("status", text, 0)
Download(data) == Shown("download", data, 0)

KeyMissing == Error(<<"Please enter your OpenAI API key in the sidebar.">>)
Generating == Markdown(<<"Generating Your Travel Itinerary">>)
Ready == Status(<<"Your travel itinerary is ready!">>)
ItineraryHeading == Markdown(<<"Your Personalized Travel Itinerary">>)
SuccessBox == Markdown(<<"Your travel itinerary has been generated successfully!">>)
Troubleshooting == Markdown(<<"Troubleshooting:">>)

\* fault: the key is not validated
key_given_always(key) == TRUE
\* `if not openai_api_key` is false
key_given(key) == key # <<>>

\* the progress updates between the construction of the planner and the call
\* of plan_trip
StageUpdates ==
  << Progress(10), Status(<<"AI agents initialized">>),
     Status(<<"Researching destinations and gathering information...">>), Progress(20),
     Status(<<"Finding the best accommodation options...">>), Progress(40),
     Status(<<"Discovering activities and attractions...">>), Progress(60),
     Status(<<"Planning transportation logistics...">>), Progress(80),
     Status(<<"Compiling your personalized itinerary...">>), Progress(90) >>
\* fault: the bar is completed before the planning starts
simulated_progress_complete == StageUpdates \o <<Progress(100), Ready>>
simulated_progress == StageUpdates

\* fault: only ValueError is handled
caught_value_error(error) == error = "ValueError"
\* `except Exception as e`: every exception of the planner is an Exception
caught(error) == TRUE

\* ", ".join(interests), with the notes appended when there are any
formatted_interests(interests, additional_preferences) ==
  Join(Sep, interests)
  \o (IF additional_preferences # <<>>
      THEN <<". Additional preferences: ">> \o additional_preferences
      ELSE <<>>)

\* the arguments the page passes to plan_trip for the form f
app_args(f) ==
  [destination |-> Str(f.destination), start_date |-> June10, end_date |-> June17,
   budget |-> Str(<<"Mid-range", " (please provide specific recommendations within this range)">>),
   interests |-> Str(formatted_interests(f.interests, f.additional_preferences)),
   accommodation_preferences |-> Str(<<"Hotel", ", with consideration for location and amenities">>),
   transportation_preferences |-> Str(<<"Public Transit", ", optimized for convenience and cost">>),
   travelers |-> Str(NatStr(f.travelers) \o <<" ">>
                     \o (IF f.travelers = 1 THEN <<"person">> ELSE <<"people">>))]

Culture == <<"C","u","l","t","u","r","e">>
Food == <<"F","o","o","d">>
Notes == <<"v","e","g","a","n",","," ","q","u","i","e","t">>
\* submissions: the Tokyo trip with a key, a blank destination with both keys
\* and notes, and the Tokyo trip without the OpenAI key
Forms ==
  { [openai_api_key |-> <<"sk-1">>, exa_api_key |-> <<>>, destination |-> TokyoJapan,
     interests |-> <<Culture, Food>>, additional_preferences |-> <<>>, travelers |-> 2],
    [openai_api_key |-> <<"sk-1">>, exa_api_key |-> <<"exa-1">>, destination |-> <<>>,
     interests |-> <<>>, additional_preferences |-> Notes, travelers |-> 1],
    [openai_api_key |-> <<>>, exa_api_key |-> <<"exa-1">>, destination |-> TokyoJapan,
     interests |-> <<Culture, Food>>, additional_preferences |-> <<>>, travelers |-> 2] }

\* what the handler of a failed submission displays
failure_shown(error) == <<Error(<<"An error occurred: ", error>>), Troubleshooting>>

\* main() on a submission of the form f, up to the call of plan_trip: the key
\* is validated, the credentials go into os.environ, the progress display is
\* set up, TravelPlannerSystem() is constructed (os.makedirs may raise) and the
\* simulated progress is shown
app_submit(f) ==
  /\ app_pc \in {"form", "shown"}
  /\ submissions < MaxSubmissions
  /\ submissions' = submissions + 1
  /\ form' = f
  /\ calls' = 0
  /\ UNCHANGED <<clock, files, has_exa, has_ddgs, tool_call, tool_out, requests, built>>
  /\ IF ~key_given(f.openai_api_key)
     THEN /\ ui' = <<KeyMissing>>
          /\ app_pc' = "shown"
          /\ constructed' = 0
          /\ env_set' = FALSE
          /\ app_err' = ""
          /\ escaped' = FALSE
          /\ UNCHANGED <<env_key, exa_key, agents, tasks, crew, pc, mode, preferences, result,
                         filename, ret, err, runs, invoked, contexts, files0, writes>>
     ELSE /\ env_key' = TRUE
          /\ exa_key' = (exa_key \/ f.exa_api_key # <<>>)
          /\ env_set' = TRUE
          /\ \E makedirs \in {"ok", "OSError"} :
               IF makedirs = "ok"
               THEN /\ constructed' = 1
                    /\ agents' = <<>> /\ tasks' = <<>> /\ crew' = NoCrew
                    /\ pc' = "idle" /\ mode' = "" /\ preferences' = Dict(<<>>)
                    /\ result' = <<>> /\ filename' = <<>> /\ ret' = <<>> /\ err' = ""
                    /\ runs' = 0 /\ invoked' = <<>> /\ contexts' = <<>>
                    /\ files0' = {} /\ writes' = 0
                    /\ ui' = <<Generating, Progress(0)>> \o simulated_progress
                    /\ app_pc' = "call"
                    /\ app_err' = ""
                    /\ escaped' = FALSE
               ELSE /\ constructed' = 0
                    /\ app_err' = makedirs
                    /\ escaped' = ~caught(makedirs)
                    /\ ui' = <<Generating, Progress(0)>>
                             \o (IF caught(makedirs) THEN failure_shown(makedirs) ELSE <<>>)
                    /\ app_pc' = "shown"
                    /\ UNCHANGED <<agents, tasks, crew, pc, mode, preferences, result,
                                   filename, ret, err, runs, invoked, contexts, files0, writes>>
  /\ UNCHANGED rt_vars

\* result = planner.plan_trip(...): the call starts
app_plan_trip ==
  /\ app_pc = "call"
  /\ plan_trip_call(app_args(form))
  /\ calls' = calls + 1
  /\ app_pc' = "planning"
  /\ UNCHANGED <<form, ui, submissions, constructed, env_set, app_err, escaped>>
  /\ UNCHANGED <<tool_vars, rt_vars>>

\* plan_trip has returned or raised: the rest of the try block, or the handler
app_show ==
  /\ app_pc = "planning"
  /\ pc \in {"done", "failed"}
  /\ app_pc' = "shown"
  /\ IF pc = "done"
     THEN /\ ui' = ui \o <<Progress(100), Ready, ItineraryHeading, SuccessBox,
                           Markdown(ret[1]), Download(ret[1])>>
          /\ UNCHANGED <<app_err, escaped>>
     ELSE /\ app_err' = err
          /\ escaped' = ~caught(err)
          /\ ui' = ui \o (IF caught(err) THEN failure_shown(err) ELSE <<>>)
  /\ UNCHANGED <<form, submissions, constructed, calls, env_set>>
  /\ UNCHANGED <<orch_vars, tool_vars, rt_vars>>

AppInit ==
  /\ Constructed
  /\ has_exa = TRUE /\ has_ddgs = TRUE /\ exa_key \in BOOLEAN
  /\ ToolsIdle
  /\ AppIdle
  /\ RoundTripIdle

AppNext ==
  \/ \E f \in Forms : app_submit(f)
  \/ app_plan_trip
  \/ execute_task /\ UNCHANGED <<tool_vars, app_vars, rt_vars>>
  \/ _save_itinerary /\ UNCHANGED <<tool_vars, app_vars, rt_vars>>
  \/ app_show

AppSpec == AppInit /\ [][AppNext]_vars

\* ------------------------------------------------------- interests round trip
\* texts of up to n characters over a letter, the comma and the space
RECURSIVE Texts(_)
Texts(n) ==
  IF n = 0 THEN {<<>>}
  ELSE Texts(n - 1) \cup {Append(t, c) : t \in {u \in Texts(n - 1) : Len(u) = n - 1},
                                         c \in {"a", ",", " "}}

RtForms ==
  [interests : {<<>>, <<Culture>>, <<Culture, Food>>},
   additional_preferences : {<<>>, Notes}]

\* the page formats the interests of a form
rt_format ==
  /\ rt_pc = "form"
  /\ rt_text' = formatted_interests(rt_form.interests, rt_form.additional_preferences)
  /\ rt_pc' = "text"
  /\ UNCHANGED <<rt_form, rt_list, rt_line>>

\* plan_trip builds travel_preferences["interests"]
rt_split ==
  /\ rt_pc = "text"
  /\ rt_list' = Get(plan_trip_preferences(Args(TokyoJapan, June10, June17, rt_text)),
                    <<"i","n","t","e","r","e","s","t","s">>, None).v
  /\ rt_pc' = "split"
  /\ UNCHANGED <<rt_form, rt_text, rt_line>>

\* _save_itinerary writes the header line of the interests
rt_save ==
  /\ rt_pc = "split"
  /\ rt_line' = header_line(Item(<<"i","n","t","e","r","e","s","t","s">>, List(rt_list)))
  /\ rt_pc' = "saved"
  /\ UNCHANGED <<rt_form, rt_text, rt_list>>

RoundTripInit ==
  /\ Constructed
  /\ has_exa = TRUE /\ has_ddgs = TRUE /\ exa_key = TRUE
  /\ ToolsIdle
  /\ AppIdle
  /\ rt_list = <<>>
  /\ rt_line = <<>>
  /\ \/ rt_pc = "text" /\ rt_form = NoRtForm /\ rt_text \in Texts(MaxText)
     \/ rt_pc = "form" /\ rt_form \in RtForms /\ rt_text = <<>>

RoundTripNext ==
  \/ rt_format /\ UNCHANGED <<orch_vars, tool_vars, app_vars>>
  \/ rt_split /\ UNCHANGED <<orch_vars, tool_vars, app_vars>>
  \/ rt_save /\ UNCHANGED <<orch_vars, tool_vars, app_vars>>

RoundTripSpec == RoundTripInit /\ [][RoundTripNext]_vars

\* ================================================================== claims
\* the pipeline as the specification states it: the five stages in order, and
\* the stages each one depends on
PipelineOrder ==
  <<"destination_research_task", "accommodation_task", "activities_task",
    "transportation_task", "itinerary_task">>
Prerequisites(name) ==
  CASE name = "destination_research_task" -> <<>>
    [] name = "accommodation_task" -> <<"destination_research_task">>
    [] name = "activities_task" -> <<"destination_research_task">>
    [] name = "transportation_task" -> <<"destination_research_task", "activities_task">>
    [] name = "itinerary_task" ->
         <<"destination_research_task", "accommodation_task",
           "activities_task", "transportation_task">>
Range(q) == {q[i] : i \in 1..Len(q)}

\* the tasks of this call were built and the crew was started
CrewStarted == pc \in {"crew", "save", "done"} \/ (pc = "failed" /\ err \in {"TaskError", "OSError", "AttributeError"})
\* all five tasks of this call returned
CrewFinished == pc \in {"save", "done"} \/ (pc = "failed" /\ err \in {"OSError", "AttributeError"})

\* C1: in every run the tasks invoked so far are the first stages of the
\* pipeline, each once and in the order research, accommodation, activities,
\* transportation, compilation; a run whose crew returns has invoked exactly
\* the five; and every task was invoked only after each of its prerequisites
\* had been invoked earlier and had produced the result it hands on.
C1_PipelineOrder ==
  /\ Len(invoked) <= Len(PipelineOrder)
  /\ \A i \in 1..Len(invoked) : invoked[i] = PipelineOrder[i]
  /\ CrewFinished => invoked = PipelineOrder
  /\ \A i \in 1..Len(invoked) :
       \A q \in Range(Prerequisites(invoked[i])) :
         /\ \E j \in 1..(i - 1) : invoked[j] = q
         /\ \E n \in 1..Len(contexts[i]) : contexts[i][n].task = q
C1_Witness ==
  /\ pc = "done"
  /\ Len(invoked) = 5
  /\ Len(contexts[4]) = 2

\* C2: the context handed to a task is the results of its declared
\* prerequisites, in the declared order, and nothing else (none for task 1,
\* task 1's for tasks 2 and 3, those of 1 and 3 for task 4, those of 1 to 4
\* for task 5); and the text handed on is still the text the prerequisite
\* holds: a result is not changed once produced.
C2_ContextIsPrerequisites ==
  CrewStarted =>
    \A i \in 1..Len(invoked) :
      /\ [n \in 1..Len(contexts[i]) |-> contexts[i][n].task] = Prerequisites(invoked[i])
      /\ \A n \in 1..Len(contexts[i]) :
           LET k == TaskIndex(contexts[i][n].task)
           IN  /\ k > 0
               /\ tasks[k].output = Output(contexts[i][n].text)
C2_Witness ==
  /\ pc = "save"
  /\ Len(contexts) = 5
  /\ Len(contexts[5]) = 4
  /\ Len(contexts[4]) = 2
  /\ contexts[4][2].task = "activities_task"

\* C3: a run that ended with an exception left travel_plans/ as it found it:
\* no file created, none modified.
C3_FailedRunSavesNothing == pc = "failed" => files = files0

\* C4: a run started without the model-service credential fails before any
\* task is executed and creates or changes no output file.
C4_MissingCredential ==
  (~env_key /\ runs > 0) =>
    /\ pc = "failed"
    /\ invoked = <<>>
    /\ writes = 0
    /\ files = files0
    /\ \A i \in 1..Len(tasks) : ~tasks[i].output.done
C4_Witness ==
  /\ ~env_key
  /\ pc = "failed"
  /\ err = "OpenAIError"
  /\ mode = "kickoff"

\* the text of the slot labelled label in the description of task k
SlotText(k, label) ==
  tasks[k].description[CHOOSE n \in 1..Len(tasks[k].description) :
                         tasks[k].description[n].label = label].text
Pref(key) == Get(preferences, key, None)
KeyDestination == <<"d","e","s","t","i","n","a","t","i","o","n">>
KeyTravelDates == <<"t","r","a","v","e","l","_","d","a","t","e","s">>
KeyBudget == <<"b","u","d","g","e","t">>
KeyInterests == <<"i","n","t","e","r","e","s","t","s">>
KeyTravelers == <<"t","r","a","v","e","l","e","r","s">>
KeyAccommodation == <<"a","c","c","o","m","m","o","d","a","t","i","o","n","_","t","y","p","e">>
KeyTransportation == <<"t","r","a","n","s","p","o","r","t","a","t","i","o","n">>

\* the preferences name a destination: the key is there and holds a text
\* that is not blank
DestinationSupplied == Pref(KeyDestination).t = "str" /\ Pref(KeyDestination).v[1] # <<>>

\* the tasks of this call exist
TasksBuilt == CrewStarted /\ Len(tasks) = 5

\* C5: the descriptions of the tasks built for a call hold the values of that
\* call's preferences: the destination slots hold the destination text, and
\* the travel-dates, budget, interests, accommodation-preference,
\* transportation-preference and traveler-count slots hold the submitted
\* values wherever the preferences give one; none is left unset.
C5_PreferencesInterpolated ==
  TasksBuilt =>
    /\ DestinationSupplied =>
         /\ SlotText(1, "Research") = Pref(KeyDestination).v[1]
         /\ SlotText(2, "Location") = Pref(KeyDestination).v[1]
         /\ SlotText(3, "Location") = Pref(KeyDestination).v[1]
         /\ SlotText(5, "Destination") = Pref(KeyDestination).v[1]
    /\ HasKey(preferences, KeyTravelDates) =>
         \A k \in {1, 3, 4, 5} : SlotText(k, "Travel dates") = PyStr(Pref(KeyTravelDates))
    /\ HasKey(preferences, KeyBudget) =>
         /\ \A k \in {1, 2, 4} : SlotText(k, "Budget") = PyStr(Pref(KeyBudget))
         /\ SlotText(3, "Budget considerations") = PyStr(Pref(KeyBudget))
    /\ HasKey(preferences, KeyInterests) =>
         \A k \in {1, 3} : SlotText(k, "Interests") # <<"None">>
    /\ HasKey(preferences, KeyAccommodation) =>
         SlotText(2, "Preferences") = PyStr(Pref(KeyAccommodation))
    /\ HasKey(preferences, KeyTransportation) =>
         SlotText(4, "Preferences") = PyStr(Pref(KeyTransportation))
    /\ HasKey(preferences, KeyTravelers) =>
         \A k \in {1, 2, 3, 4} : SlotText(k, "Number of travelers") = PyStr(Pref(KeyTravelers))

\* C6: when the preferences of a call name no destination, the first task
\* asks for research of potential destinations with three to recommend, not
\* of one named subject, and the location and destination slots of the later
\* tasks say the destination is to be determined from the research.
C6_NoDestinationAsksForCandidates ==
  (TasksBuilt /\ ~DestinationSupplied) =>
    /\ SlotText(1, "Research") = <<"potential travel destinations">>
    /\ SlotText(1, "If no specific destination is provided")
         = <<"recommend 3 suitable destinations that match the criteria.">>
    /\ SlotText(2, "Location") = <<"To be determined based on destination research">>
    /\ SlotText(3, "Location") = <<"To be determined based on destination research">>
    /\ SlotText(5, "Destination") = <<"As determined by research">>

\* C7: a run whose five tasks completed writes to
\* travel_plans/<name>_<YYYYMMDD_HHMMSS>.md, <name> being the destination with
\* "_" for each space when a destination is supplied and "Custom" when it is
\* absent (no key, None, or the blank text of the form); and the save step
\* never fails because the destination is absent.
C7_SavePath ==
  /\ pc = "done" =>
       filename = <<"travel_plans/">>
                  \o (IF DestinationSupplied
                      THEN Replace(Pref(KeyDestination).v[1], " ", "_")
                      ELSE <<"C","u","s","t","o","m">>)
                  \o <<"_">> \o strftime(clock) \o <<".md">>
  /\ (CrewFinished /\ ~DestinationSupplied) => ~(pc = "failed" /\ err = "AttributeError")

\* sub occurs in s
Contains(s, sub) ==
  \E i \in 0..(Len(s) - Len(sub)) : \A j \in 1..Len(sub) : s[i + j] = sub[j]

TokyoPreferences == plan_trip_preferences(TokyoArgs)
\* names of the files this call created or changed
Touched == {f.name : f \in files \ files0}

\* C8 as stated: the Tokyo run that succeeds yields one non-empty final text
\* and exactly one saved file, whose name contains "Tokyo_Japan" followed by
\* the timestamp of the run.
C8_TokyoAsStated ==
  (pc = "done" /\ preferences = TokyoPreferences) =>
    /\ ret = <<result>>
    /\ result # <<>>
    /\ writes = 1
    /\ Contains(filename, <<"T","o","k","y","o","_","J","a","p","a","n","_">> \o strftime(clock))

\* C8 (amended): the Tokyo run that succeeds returns one final text, the fifth
\* task's result, and writes exactly one file, travel_plans/Tokyo,_Japan_
\* followed by the timestamp of the run and ".md": the space becomes "_", the
\* comma stays.
C8_TokyoSaved ==
  (pc = "done" /\ preferences = TokyoPreferences) =>
    /\ ret = <<result>>
    /\ result = tasks[5].output.raw
    /\ writes = 1
    /\ filename = <<"travel_plans/">> \o <<"T","o","k","y","o",",","_","J","a","p","a","n","_">> \o strftime(clock) \o <<".md">>
    /\ Contains(filename, <<"T","o","k","y","o",",","_","J","a","p","a","n","_">> \o strftime(clock))
    /\ \E f \in files : f.name = filename
    /\ Touched \subseteq {filename}
C8_Witness ==
  /\ pc = "done"
  /\ preferences = TokyoPreferences
  /\ result # <<>>
  /\ Touched = {filename}

\* the elements of a list with ", " between them
RECURSIVE CommaJoined(_, _)
CommaJoined(l, n) ==
  IF n = 0 THEN <<>>
  ELSE IF n = 1 THEN l[1]
  ELSE CommaJoined(l, n - 1) \o <<",", " ">> \o l[n]
\* the header line of the i-th preference: its key, then its value, a list as
\* its elements joined with ", " and anything else as its text
ExpectedLine(i) ==
  LET item == preferences.items[i]
  IN  <<"- **">> \o Title(Replace(item.k, "_", " ")) \o <<":** ">>
      \o (IF item.val.t = "list" THEN CommaJoined(item.val.v, Len(item.val.v))
          ELSE IF item.val.t = "none" THEN <<"None">> ELSE item.val.v[1])
      \o <<"\n">>
RECURSIVE ExpectedLines(_)
ExpectedLines(n) == IF n = 0 THEN <<>> ELSE ExpectedLines(n - 1) \o ExpectedLine(n)
\* the content of the file this call saved
SavedContent == (CHOOSE f \in files : f.name = filename).content
HeaderTop == <<"# Travel Itinerary\n\n", "## Travel Preferences\n\n">>
HeaderBottom == <<"\n## Itinerary\n\n">>

\* C9: the header of the file a run saved has, between its heading and the
\* itinerary heading, exactly one line per key of the preferences, in the
\* order of the preferences, each with the key's value: a list as its elements
\* joined with ", ", any other value as its text.
C9_HeaderListsPreferences ==
  pc = "done" =>
    /\ \E f \in files : f.name = filename
    /\ Len(SavedContent) >= Len(HeaderTop \o ExpectedLines(Len(preferences.items)) \o HeaderBottom)
    /\ SubSeq(SavedContent, 1,
              Len(HeaderTop \o ExpectedLines(Len(preferences.items)) \o HeaderBottom))
         = HeaderTop \o ExpectedLines(Len(preferences.items)) \o HeaderBottom
C9_Witness ==
  /\ pc = "done"
  /\ preferences = ExamplePreferences
  /\ Contains(SavedContent, <<"c","u","l","t","u","r","e",","," ","f","o","o","d">> \o <<"\n">>)

IsDocument(f) == f.content # <<>>

\* C11: a document is immutable after write: whatever happens next, every
\* document in travel_plans/ is still there with the same content, so every
\* successful run leaves its own document.
C11_DocumentsImmutable == [][\A f \in files : IsDocument(f) => f \in files']_vars

\* ------------------------------------------------------------------- C12
WebsiteErrorMarker == "Error extracting information from website: "
WebsiteCalled == tool_call.tool = "Website Search"
StartsWith(s, prefix) == Len(s) >= Len(prefix) /\ SubSeq(s, 1, Len(prefix)) = prefix

\* C12: the website tool never raises; a failed request, status or parse gives
\* a text that begins with the error marker, and a successful extraction gives
\* a text that begins with the "Information from <url>" heading, never the marker
C12_WebsiteErrorsAreText ==
  WebsiteCalled =>
    /\ ~tool_out.raised
    /\ tool_call.net # "ok" => StartsWith(tool_out.text, <<WebsiteErrorMarker>>)
    /\ tool_call.net = "ok" =>
         /\ StartsWith(tool_out.text, <<"Information from ">> \o tool_call.arg)
         /\ ~StartsWith(tool_out.text, <<WebsiteErrorMarker>>)

C12_Witness ==
  /\ WebsiteCalled
  /\ tool_call.net = "HTTPError"
  /\ tool_out = [raised |-> FALSE, text |-> <<WebsiteErrorMarker, "<", "HTTPError", ">">>]

\* ------------------------------------------------------------------- C13
WeatherCalled == tool_call.tool = "Weather Information"
\* the geocoding request answered, with no "results" key or an empty list
Unresolved == tool_call.query \in {<<"ok", "missing">>, <<"ok", "empty">>}
Resolved == tool_call.query = <<"ok", "found">>

\* C13: for a location the geocoding step cannot resolve, the weather tool
\* returns the text "Could not find location: <location>", does not raise, and
\* sends no forecast request
C13_UnresolvedLocation ==
  (WeatherCalled /\ Unresolved) =>
    /\ tool_out = [raised |-> FALSE,
                   text |-> <<"Could not find location: ">> \o tool_call.arg]
    /\ requests = <<"geocode">>

C13_Witness ==
  /\ WeatherCalled
  /\ tool_call.query = <<"ok", "empty">>
  /\ tool_call.arg = <<"Nowhereistan12345">>
  /\ tool_out.text = <<"Could not find location: ", "Nowhereistan12345">>
  /\ requests = <<"geocode">>

\* ------------------------------------------------------------------- C14
HasCurrentLine(text) == \E p \in DOMAIN text : text[p] = "Current conditions: "
DailyLineCount(text) == Cardinality({p \in DOMAIN text : text[p] = "Precipitation: "})
\* the day-of-month digits of the dates the text shows, in the order shown
DatesShown(text) ==
  LET at == SelectSeq([p \in DOMAIN text |-> p], LAMBDA p : text[p] = "2024-06-")
  IN  [k \in DOMAIN at |-> <<text[at[k] + 1], text[at[k] + 2]>>]
FirstDays(n) == [i \in 1..(IF n < 7 THEN n ELSE 7) |-> NatStr(9 + i)]
WeatherShown ==
  /\ ~tool_out.raised
  /\ HasCurrentLine(tool_out.text)
  /\ DailyLineCount(tool_out.text) <= 7
  /\ DatesShown(tool_out.text) = FirstDays(tool_call.n)

\* C14 as stated: for every resolvable location the result has a
\* current-conditions line and the first min(7, n) daily lines
C14_AsStated == (WeatherCalled /\ Resolved) => WeatherShown

\* C14: when the forecast request succeeds, its response carries current
\* conditions and its daily arrays have n entries each (0..14), the result has a
\* current-conditions line and at most 7 daily lines, the first min(7, n) days
\* in the order fetched
C14_SevenDayWindow ==
  (/\ WeatherCalled /\ Resolved
   /\ tool_call.net = "ok"
   /\ "current" \in tool_call.flags
   /\ "ragged" \notin tool_call.flags) => WeatherShown

C14_Witness ==
  /\ WeatherCalled /\ Resolved
  /\ tool_call.n = 14
  /\ {"current", "daily"} \subseteq tool_call.flags
  /\ DailyLineCount(tool_out.text) = 7
  /\ DatesShown(tool_out.text)[7] = <<"1", "6">>

\* ------------------------------------------------------------------- C15
SearchCalled == tool_call.tool \in {"Exa Search", "DuckDuckGo Search"}
Misconfigured ==
  \/ tool_call.tool = "Exa Search" /\ (~has_exa \/ ~exa_key)
  \/ tool_call.tool = "DuckDuckGo Search" /\ ~has_ddgs
AgentsCreated == tool_call.tool = "create_agents"
SearchAttached(a) ==
  \E i, j \in DOMAIN a.tools : a.tools[i] = "Exa Search" /\ a.tools[j] = "DuckDuckGo Search"

CrewRun == pc \in {"crew", "save", "done"} \/ (pc = "failed" /\ invoked # <<>>)
Fresh(t) == [t EXCEPT !.output = NoOutput]
\* every context entry is the output of an earlier task of this same list
OwnContexts ==
  \A k \in DOMAIN contexts : \A j \in DOMAIN contexts[k] :
    LET e == contexts[k][j]
    IN  /\ TaskIndex(e.task) \in 1..(k - 1)
        /\ e.text = tasks[TaskIndex(e.task)].output.raw

\* C19: whatever calls came before, the crew a call runs holds five agents and
\* five tasks built from this call's preferences; only the tasks this call has
\* executed have a result, and every context is made of this call's results
C19_RebuiltPerCall ==
  CrewRun =>
    /\ Len(agents) = 5 /\ Len(tasks) = 5
    /\ crew = [agents |-> Names(agents), tasks |-> Names(tasks), process |-> "sequential"]
    /\ [i \in 1..5 |-> Fresh(tasks[i])] = initialize_tasks(preferences)
    /\ \A i \in 1..5 : tasks[i].output.done => i <= Len(invoked)
    /\ Len(contexts) = Len(invoked)
    /\ OwnContexts

\* the second call starts its crew after a first call that failed
C19_Witness ==
  /\ runs = 2 /\ files = {}
  /\ pc = "crew" /\ invoked = <<>>
  /\ preferences = ExamplePreferences
  /\ \A i \in 1..5 : ~tasks[i].output.done

\* ------------------------------------------------------------------- C16
Submitted == submissions > 0
KeyGiven == form.openai_api_key # <<>>

\* C16: a submission without the OpenAI key constructs no planner, calls
\* plan_trip never, writes no credential into the environment and shows only
\* the key error; a submission with the key calls plan_trip at most once
C16_KeyValidated ==
  /\ (Submitted /\ ~KeyGiven) =>
       /\ constructed = 0
       /\ calls = 0
       /\ ~env_set
       /\ app_pc = "shown"
       /\ ui = <<KeyMissing>>
  /\ calls <= 1
  /\ constructed <= 1

\* a submission without the key after one with it
C16_Witness ==
  /\ submissions = 2
  /\ ~KeyGiven
  /\ env_key
  /\ ui = <<KeyMissing>>
  /\ constructed = 0 /\ calls = 0

\* ------------------------------------------------------------------- C17
Showing(e) == \E i \in DOMAIN ui : ui[i] = e
\* the run of this submission raised: in the constructor or in plan_trip
RunFailed == app_err # "" \/ (app_pc = "planning" /\ pc = "failed")
SuccessShown ==
  \/ Showing(SuccessBox) \/ Showing(ItineraryHeading) \/ Showing(Ready)
  \/ \E i \in DOMAIN ui : ui[i].kind = "download"
  \/ \E i \in DOMAIN ui : ui[i].kind = "markdown" /\ ui[i] \notin {Generating, Troubleshooting}

\* C17: when the constructor or plan_trip raises, the page shows the error
\* message and then the troubleshooting text, shows no itinerary, success box
\* or download button in that submission, and the exception does not leave main()
C17_FailureShown ==
  /\ RunFailed => (~SuccessShown /\ ~escaped)
  /\ app_err # "" =>
       /\ app_pc = "shown"
       /\ Len(ui) >= 2
       /\ ui[Len(ui) - 1] = Error(<<"An error occurred: ", app_err>>)
       /\ ui[Len(ui)] = Troubleshooting

\* a task of the crew raised in the middle of the run
C17_Witness ==
  /\ app_err = "TaskError"
  /\ Len(invoked) = 3
  /\ calls = 1
  /\ ui[Len(ui)] = Troubleshooting

\* ------------------------------------------------------------------- C18
FiveStages ==
  { <<"Researching destinations and gathering information...">>,
    <<"Finding the best accommodation options...">>,
    <<"Discovering activities and attractions...">>,
    <<"Planning transportation logistics...">>,
    <<"Compiling your personalized itinerary...">> }
StagesShown == (\A st \in FiveStages : Showing(Status(st))) /\ Showing(Progress(90))
CompleteShown == Showing(Progress(100)) \/ Showing(Ready)

\* C18: once the planner is constructed the five stage messages and the
\* progress values up to 90 are on the page before plan_trip is called, hence
\* before any task has run, and nothing is added while the tasks run; 100% and
\* "ready" are shown only after plan_trip returned its result, never in a
\* submission whose run failed
C18_ProgressIsCosmetic ==
  /\ app_pc = "call" => (calls = 0 /\ invoked = <<>>)
  /\ app_pc \in {"call", "planning"} =>
       /\ StagesShown
       /\ ~CompleteShown
       /\ \A i \in DOMAIN ui : ui[i].kind = "progress" => ui[i].value <= 90
       /\ ui[Len(ui)] = Progress(90)
  /\ CompleteShown =>
       /\ app_pc = "shown"
       /\ pc = "done"
       /\ ret # <<>>
       /\ app_err = ""
       /\ StagesShown

\* all stages are on the page and no task has run yet
C18_Witness ==
  /\ app_pc = "planning"
  /\ pc = "crew"
  /\ invoked = <<>>
  /\ StagesShown

\* ------------------------------------------------------------------- C20
InterestsLine(text) ==
  <<"- **", "I", "n", "t", "e", "r", "e", "s", "t", "s", ":** ">> \o text \o <<"\n">>

\* C20: splitting the interests text on ", " and joining the list with ", "
\* gives the text back, so the Interests line of the header is the text the
\* caller passed
C20_InterestsRoundTrip ==
  /\ rt_pc \in {"split", "saved"} => Join(<<",", " ">>, rt_list) = rt_text
  /\ rt_pc = "saved" => rt_line = InterestsLine(rt_text)

\* the interests of a form with notes that contain ", "
C20_Witness ==
  /\ rt_pc = "saved"
  /\ rt_form.additional_preferences # <<>>
  /\ Len(rt_form.interests) = 2
  /\ Len(rt_list) = 3
  /\ rt_line = InterestsLine(rt_text)
====
